---- MODULE Spec2Model ----
(***************************************************************************)
(* Model of the Dropbox storage backend (storage-dropbox.ts): the six data *)
(* operations on top of apiCall, the OAuth session they rely on, and the   *)
(* configuration methods applyConfig / applySetting.                       *)
(*                                                                         *)
(* StorageBase (oauthAuthorize, xhr, oauthRevokeToken), AppSettings and    *)
(* the Dropbox service itself are not part of the sources modelled here;   *)
(* they are modelled from the specification (sections 4.2, 4.3, 4.4).      *)
(***************************************************************************)
EXTENDS Integers, Sequences, FiniteSets, TLC

\* ------------------------------------------------------------------ bounds

\* Revisions handed out by the remote are 1..MaxRev; 0 stands for "no rev".
MaxRev == 3

\* The concurrent invocations of the backend that are followed.
Calls == {"c1", "c2"}

\* The logical path the caller works on (a sequence of characters).
Paths == {<<"a">>}

\* The invocations of the backend that are followed in one behaviour.
MaxInvocations == 3

\* File contents: what the caller saves, and what another client writes.
Data == {"d1"}
OtherData == "d0"

\* The failures the service answers with on its own account: a status and
\* the discriminator under the error body's "path" member.
Faults == {<<409, "other">>, <<500, "not_found">>}

NoRev == 0
NoValue == "undefined"
\* A folder setting that is not set (a folder is a sequence of characters).
NoFolder == <<NoValue>>

\* ---------------------------------------------------------------- settings

\* DropboxApps.AppFolder.id / DropboxApps.FullDropbox.id
AppFolderId == "appfolder-id"
FullDropboxId == "fulldropbox-id"

\* UrlFormat.fixSlashes: duplicate slashes collapsed.
RECURSIVE fixSlashes(_)
fixSlashes(s) ==
    IF Len(s) < 2 THEN s
    ELSE IF s[1] = "/" /\ s[2] = "/" THEN fixSlashes(Tail(s))
    ELSE <<s[1]>> \o fixSlashes(Tail(s))

\* toFullPath: the path is rebased under the root folder when one is set.
toFullPath(rootFolder, path) ==
    IF rootFolder # NoFolder /\ rootFolder # <<>>
    THEN fixSlashes(<<"/">> \o rootFolder \o <<"/">> \o path)
    ELSE path

\* String.prototype.trim on a sequence of characters.
RECURSIVE TrimLeft(_)
TrimLeft(s) == IF s # <<>> /\ s[1] = " " THEN TrimLeft(Tail(s)) ELSE s

RECURSIVE TrimRight(_)
TrimRight(s) ==
    IF s # <<>> /\ s[Len(s)] = " " THEN TrimRight(SubSeq(s, 1, Len(s) - 1)) ELSE s

\* fixConfigFolder: backslashes become slashes, the ends are trimmed, then
\* one leading slash is dropped.
fixConfigFolder(folder) ==
    LET slashed == [i \in 1..Len(folder) |-> IF folder[i] = "\\" THEN "/" ELSE folder[i]]
        trimmed == TrimRight(TrimLeft(slashed))
    IN  IF trimmed # <<>> /\ trimmed[1] = "/" THEN Tail(trimmed) ELSE trimmed

\* AppSettings: one assignment.
Assigned(st, a) == [st EXCEPT ![a[1]] = a[2]]

\* AppSettings: the states the settings go through under the assignments as.
RECURSIVE Assignments(_, _)
Assignments(st, as) ==
    IF as = <<>> THEN <<>>
    ELSE <<Assigned(st, as[1])>> \o Assignments(Assigned(st, as[1]), Tail(as))

\* AppSettings outside batchSet: observers are notified at every assignment.
SetEach(st, as) ==
    LET sts == Assignments(st, as)
    IN  [settings |-> sts[Len(sts)], seen |-> {sts[i] : i \in 1..Len(sts)}]

\* AppSettings.batchSet: the assignments are made together and observers
\* are notified once, of the outcome.
BatchSet(st, as) ==
    LET sts == Assignments(st, as)
    IN  [settings |-> sts[Len(sts)], seen |-> {sts[Len(sts)]}]

IsAppFolderKey(key) == key = AppFolderId

\* applyConfig: the keys it refuses.
IsBuiltInKey(key) == key = AppFolderId \/ key = FullDropboxId

ApplyConfigUnbatched(st, config) ==
    SetEach(st, <<<<"dropboxAppKey", config.key>>, <<"dropboxSecret", config.secret>>,
                  <<"dropboxFolder", config.folder>>>>)

\* applyConfig: the three settings are stored inside one batchSet.
ApplyConfigStore(st, config) ==
    BatchSet(st, <<<<"dropboxAppKey", config.key>>, <<"dropboxSecret", config.secret>>,
                   <<"dropboxFolder", config.folder>>>>)

\* ------------------------------------------------------------ the requests

Ops == {"load", "save", "stat", "remove", "list", "mkdir"}

\* The root folders the settings hold while calls are made, and the backend
\* paths the calls reach under them.
RootFolders == {NoFolder, <<"V">>}
BackendPaths == {toFullPath(r, p) : r \in RootFolders, p \in Paths}

\* The endpoint each operation posts to.
Method(op) ==
    CASE op = "load"   -> "files/download"
      [] op = "save"   -> "files/upload"
      [] op = "stat"   -> "files/get_metadata"
      [] op = "remove" -> "files/delete"
      [] op = "list"   -> "files/list_folder"
      [] op = "mkdir"  -> "files/create_folder"

SaveModeBroken(rev) == [tag |-> "overwrite", update |-> NoRev]

\* save: mode: rev ? { '.tag': 'update', update: rev } : { '.tag': 'overwrite' }
SaveMode(rev) ==
    IF rev # NoRev THEN [tag |-> "update", update |-> rev]
    ELSE [tag |-> "overwrite", update |-> NoRev]

\* The request an operation hands to apiCall.
Request(op, rootFolder, path, rev, data) ==
    [method |-> Method(op),
     path   |-> toFullPath(rootFolder, path),
     mode   |-> IF op = "save" THEN SaveMode(rev) ELSE SaveMode(NoRev),
     data   |-> IF op = "save" THEN data ELSE NoValue]


\* ------------------------------------------------------ the remote service

NoResp == [status |-> 0, errPath |-> "none", tag |-> "none", rev |-> NoRev, data |-> NoValue]

Absent == [kind |-> "absent", rev |-> NoRev, data |-> NoValue]

OkResp(tag, rev, data) ==
    [status |-> 200, errPath |-> "none", tag |-> tag, rev |-> rev, data |-> data]

\* An error response: its status and the discriminator under the error
\* body's "path" member ("none" when the body has no such member).
ErrResp(status, errPath) ==
    [status |-> status, errPath |-> errPath, tag |-> "none", rev |-> NoRev, data |-> NoValue]

\* Whether the service applies an upload with this mode to the file f.
UploadAccepted(mode, f) ==
    IF mode.tag = "update"
    THEN f.kind = "file" /\ f.rev = mode.update
    ELSE f.kind # "folder"

\* The file at the request's path after the service handled the request;
\* fresh is the revision the service gives to new content.
ServeFile(req, f, fresh) ==
    CASE req.method = "files/upload" /\ UploadAccepted(req.mode, f) ->
            [kind |-> "file", rev |-> fresh, data |-> req.data]
      [] req.method = "files/delete" /\ f.kind # "absent" -> Absent
      [] req.method = "files/create_folder" /\ f.kind = "absent" ->
            [kind |-> "folder", rev |-> NoRev, data |-> NoValue]
      [] OTHER -> f

\* The service's answer to an authorized request on the file f.
ServeResp(req, f, fresh) ==
    CASE req.method = "files/download" ->
            IF f.kind = "file" THEN OkResp("file", f.rev, f.data)
            ELSE IF f.kind = "absent" THEN ErrResp(409, "not_found")
            ELSE ErrResp(409, "other")
      [] req.method = "files/get_metadata" ->
            IF f.kind = "file" THEN OkResp("file", f.rev, NoValue)
            ELSE IF f.kind = "folder" THEN OkResp("folder", NoRev, NoValue)
            ELSE ErrResp(409, "not_found")
      [] req.method = "files/upload" ->
            IF UploadAccepted(req.mode, f) THEN OkResp("file", fresh, NoValue)
            ELSE ErrResp(409, "conflict")
      [] req.method = "files/delete" ->
            \* a missing file is reported under "path_lookup", not "path"
            IF f.kind # "absent" THEN OkResp(f.kind, f.rev, NoValue)
            ELSE ErrResp(409, "none")
      [] req.method = "files/list_folder" ->
            IF f.kind = "folder" THEN OkResp("entries", NoRev, NoValue)
            ELSE IF f.kind = "absent" THEN ErrResp(409, "not_found")
            ELSE ErrResp(409, "other")
      [] req.method = "files/create_folder" ->
            IF f.kind = "absent" THEN OkResp("folder", NoRev, NoValue)
            ELSE ErrResp(409, "conflict")

\* ------------------------------------------------------------ the results

NoResult == [err |-> "pending", status |-> 0, rev |-> NoRev, folder |-> FALSE, data |-> NoValue]

Ok(rev, folder, data) ==
    [err |-> "none", status |-> 0, rev |-> rev, folder |-> folder, data |-> data]

Failure(err, status) ==
    [err |-> err, status |-> status, rev |-> NoRev, folder |-> FALSE, data |-> NoValue]

\* load: { data: response.data, rev } with rev taken from the result header
LoadResult(resp) ==
    IF resp.data = NoValue THEN Failure("BadResponse", 0)
    ELSE Ok(resp.rev, FALSE, resp.data)

StatResultLenient(resp) ==
    IF resp.tag = "folder" THEN Ok(NoRev, TRUE, NoValue) ELSE Ok(resp.rev, FALSE, NoValue)

\* stat: { rev } for a file, { folder: true } for a folder, an error otherwise
StatResult(resp) ==
    CASE resp.tag = "file"   -> Ok(resp.rev, FALSE, NoValue)
      [] resp.tag = "folder" -> Ok(NoRev, TRUE, NoValue)
      [] OTHER               -> Failure("BadResponse", 0)

SaveResultNoRev(resp) == Ok(NoRev, FALSE, NoValue)

\* save: { rev: savedRev }
SaveResult(resp) == Ok(resp.rev, FALSE, NoValue)

\* list: fails when the response holds no entries array
ListResult(resp) ==
    IF resp.tag = "entries" THEN Ok(NoRev, FALSE, NoValue)
    ELSE Failure("BadResponse", 0)

\* What the operation returns once apiCall returned the response.
OpResult(op, resp) ==
    CASE op = "load" -> LoadResult(resp)
      [] op = "stat" -> StatResult(resp)
      [] op = "save" -> SaveResult(resp)
      [] op = "list" -> ListResult(resp)
      [] OTHER       -> Ok(NoRev, FALSE, NoValue)

\* The error xhr rejects with for a response outside the accepted statuses:
\* an HttpRequestError with the response's status and error body.
HttpError(resp) == [http |-> TRUE, status |-> resp.status, path |-> resp.errPath]

\* The error xhr rejects with when the transport gave no response.
TransportError == [http |-> FALSE, status |-> 0, path |-> "none"]

\* The error xhr rejects with when the session could not be refreshed.
AuthError == [http |-> TRUE, status |-> 401, path |-> "none"]

ApiCallCatchStatusOnly(e) == Failure("ApiError", IF e.http THEN e.status ELSE 0)

\* apiCall's catch block: a not_found path discriminator gives
\* StorageFileNotFoundError, everything else Error('API error, status code N').
ApiCallCatch(e) ==
    IF e.path = "not_found" THEN Failure("FileNotFound", 0)
    ELSE Failure("ApiError", IF e.http THEN e.status ELSE 0)


\* ---------------------------------------------------------------- the state

VARIABLES
    remote,     \* the service: the file at every backend path
    nextRev,    \* the service: the next revision it hands out
    session,    \* the OAuth session of the backend instance
    calls,      \* the invocations of the backend in progress, by slot
    ended,      \* the invocations that ended in the last step, with their outcome
    known,      \* the caller: per logical path, the last rev a save or stat gave
    invoked,    \* how many invocations were made
    settings,   \* AppSettings: dropboxAppKey, dropboxSecret, dropboxFolder
    seen,       \* the settings states observers were notified of by the last change
    cfgResult,  \* the outcome of the last applyConfig
    revoke,     \* the logout in progress or last made, and what its caller got
    view,       \* the open view: busy, storageWaitId, params, views.openConfig
    requests,   \* the open view's storage requests: pending, or the last one completed
    otp,        \* the open view's OTP device openings started by openYubiKey, in flight
    hw,         \* the clock, the encrypted password, the hardware decryptions, the events
    files,      \* FileManager.files: the open files, with their tags and groups
    workspace,  \* the workspace: tags and the sections of its menu
    fnArg,      \* a function of the backend under study, with its arguments
    fnOut       \* what that function returned

vars == <<remote, nextRev, session, calls, ended, known, invoked, settings, seen, cfgResult, revoke, view, requests, otp, hw, files, workspace, fnArg, fnOut>>

IdleCall ==
    [pc |-> "idle", op |-> "none", path |-> <<>>, rev |-> NoRev, data |-> NoValue,
     req |-> [method |-> "none", path |-> <<>>, mode |-> SaveMode(NoRev), data |-> NoValue],
     tok |-> "none", sent |-> 0]

NoSettings == [dropboxAppKey |-> NoValue, dropboxSecret |-> NoValue, dropboxFolder |-> NoFolder]

\* storageWaitId: null
NoWaitId == 0

\* this.params before a file is chosen.
NoOpts == [key |-> NoValue, secret |-> NoValue, folder |-> NoFolder]
NoParams ==
    [id |-> NoValue, storage |-> NoValue, path |-> NoValue, opts |-> NoOpts,
     rev |-> NoRev, fileData |-> NoValue]

\* this.views.openConfig: absent
NoConfigView == [shown |-> FALSE, storage |-> NoValue, disabled |-> FALSE, error |-> NoValue]

\* The open view before anything happened in it.
\* this.otpDevice: null
NoOtp == 0

NewView ==
    [busy |-> FALSE, storageWaitId |-> NoWaitId, params |-> NoParams,
     openConfig |-> NoConfigView, otpDevice |-> NoOtp]

\* this.encryptedPassword: null
NoEncryptedPassword == [set |-> FALSE, date |-> 0]

\* The clock, the encrypted password of the open view, the password typed,
\* the decryptions in flight and the events emitted, before anything happened.
NewHw ==
    [now |-> 0, encryptedPassword |-> NoEncryptedPassword, passwordLength |-> 0,
     paramsEncryptedPassword |-> NoEncryptedPassword, started |-> 0, decrypts |-> {},
     events |-> <<>>]
\* The workspace after construction: no tags, the sections of the menu empty;
\* tagsChangedRan tells whether the handler that ran last called tagsChanged.
NewWorkspace ==
    [tags |-> <<>>, tagsSection |-> [scrollable |-> FALSE, items |-> <<>>],
     groupsSection |-> <<>>, filesSection |-> <<>>, tagsChangedRan |-> FALSE]

\* No logout was made.
NoLogout == [pc |-> "idle", by |-> "none", request |-> FALSE, rejected |-> FALSE, logged |-> FALSE]

LoggedOutSession(state) ==
    [state |-> state, tokenOk |-> FALSE, inflight |-> 0, exchanges |-> 0]

\* No function is under study.
NoArg == [fn |-> "none"]
NoOut == [fn |-> "none"]

\* The backend, the settings and the open view after construction.
Constructed ==
    /\ remote = [q \in BackendPaths |-> Absent]
    /\ nextRev = 1
    /\ session = LoggedOutSession("Unauthenticated")
    /\ calls = [c \in Calls |-> IdleCall]
    /\ ended = {}
    /\ known = [p \in Paths |-> [rev |-> NoRev, clean |-> FALSE]]
    /\ invoked = 0
    /\ settings = NoSettings
    /\ seen = {}
    /\ cfgResult = "none"
    /\ revoke = NoLogout
    /\ view = NewView
    /\ requests = {}
    /\ otp = {}
    /\ hw = NewHw
    /\ files = <<>>
    /\ workspace = NewWorkspace

Init ==
    /\ Constructed
    /\ fnArg = NoArg
    /\ fnOut = NoOut

\* The backend path of a logical path under the current settings.
Full(p) == toFullPath(settings.dropboxFolder, p)

DispatchedWithStaleToken(rec) == [rec EXCEPT !.pc = "sent", !.sent = @ + 1, !.tok = "old"]

\* apiCall after oauthAuthorize resolved: the request goes out through xhr,
\* carrying the session's current access token.
Dispatched(rec) == [rec EXCEPT !.pc = "sent", !.sent = @ + 1, !.tok = "cur"]

\* A call that ended: whether the service handled its request, the response
\* it got (if any), the file the service had and has at its path, what the caller gets, and whether the rev it passed
\* is the one the caller last learnt with no write to the path since.
Ended(c, served, resp, before, after, result) ==
    [call |-> c, served |-> served, op |-> calls[c].op, path |-> calls[c].path, rev |-> calls[c].rev,
     data |-> calls[c].data, req |-> calls[c].req, sent |-> calls[c].sent,
     resp |-> resp, before |-> before, after |-> after, result |-> result,
     agreed |-> known[calls[c].path].clean /\ known[calls[c].path].rev = calls[c].rev]

ThrownRetries(rec) == Dispatched(rec)

\* apiCall throws (or returns): the invocation is over, nothing is re-sent.
Thrown(rec) == IdleCall

\* apiCall when xhr rejected with e.
Caught(c, resp, e) ==
    Ended(c, FALSE, resp, remote[calls[c].req.path], remote[calls[c].req.path],
          ApiCallCatch(e))

\* oauthAuthorize rejected: apiCall rejects with that error before any dispatch.
Unauthorizable(c) ==
    Ended(c, FALSE, NoResp, remote[calls[c].req.path], remote[calls[c].req.path],
          Failure("AuthFailure", 0))

\* The session after a successful authorization or refresh.
Authenticated == [session EXCEPT !.state = "Authenticated", !.tokenOk = TRUE, !.inflight = 0]

\* The session starting a refresh exchange.
Refreshing == [session EXCEPT !.state = "Refreshing",
                              !.inflight = @ + 1, !.exchanges = @ + 1]

\* What the caller knows after the calls in es ended and backend path q was
\* written (q = <<>>: no write): a rev a save or stat returned is kept for the
\* next save of its path; a write makes what was known of q stale.
Learn(es, q) ==
    [p \in Paths |->
        IF \E e \in es : /\ e.path = p /\ e.op \in {"save", "stat"}
                         /\ e.result.err = "none" /\ e.result.rev # NoRev
        THEN LET e == CHOOSE e \in es : /\ e.path = p /\ e.op \in {"save", "stat"}
                                        /\ e.result.err = "none" /\ e.result.rev # NoRev
             IN  [rev |-> e.result.rev, clean |-> TRUE]
        ELSE IF Full(p) = q THEN [known[p] EXCEPT !.clean = FALSE]
        ELSE known[p]]

\* ----------------------------------------------------------- the operations

\* load, save, stat, remove, list or mkdir is invoked. The call awaits
\* oauthAuthorize; with a usable session the request is dispatched at once.
\* detect: the expiry of the access token is noticed locally.
Invoke(c, op, p, rev, d, detect) ==
    /\ calls[c].pc = "idle"
    /\ invoked < MaxInvocations
    /\ invoked' = invoked + 1
    /\ LET rec == [IdleCall EXCEPT !.pc = "authorize", !.op = op, !.path = p,
                        !.rev = rev, !.data = d,
                        !.req = Request(op, settings.dropboxFolder, p, rev, d)]
       IN  IF session.state = "Authenticated" /\ (session.tokenOk \/ ~detect)
           THEN /\ calls' = [calls EXCEPT ![c] = Dispatched(rec)]
                /\ UNCHANGED session
           ELSE IF session.state = "Authenticated"
           THEN /\ calls' = [calls EXCEPT ![c] = rec]
                /\ session' = Refreshing
           ELSE /\ calls' = [calls EXCEPT ![c] = rec]
                /\ UNCHANGED session
    /\ ended' = {}
    /\ UNCHANGED <<remote, nextRev, known, settings, seen, cfgResult, revoke, view, requests, otp, hw, files, workspace, fnArg, fnOut>>

\* The authorization-code flow started by oauthAuthorize ends.
AuthorizeFlow(ok) ==
    /\ session.state \in {"Unauthenticated", "LoggedOut"}
    /\ \E c \in Calls : calls[c].pc = "authorize"
    /\ IF ok
       THEN /\ session' = Authenticated
            /\ calls' = [c \in Calls |->
                   IF calls[c].pc = "authorize" THEN Dispatched(calls[c]) ELSE calls[c]]
            /\ ended' = {}
       ELSE /\ UNCHANGED session
            /\ calls' = [c \in Calls |->
                   IF calls[c].pc = "authorize" THEN Thrown(calls[c]) ELSE calls[c]]
            /\ ended' = {Unauthorizable(c) : c \in {x \in Calls : calls[x].pc = "authorize"}}
    /\ UNCHANGED <<remote, nextRev, known, invoked, settings, seen, cfgResult, revoke, view, requests, otp, hw, files, workspace, fnArg, fnOut>>

StartsRefreshAgain(rec, sess) == sess.state \in {"Authenticated", "Refreshing"}

\* Whether a 401 answer to this call starts a refresh exchange.
StartsRefresh(rec, sess) == sess.state = "Authenticated" /\ rec.tok = "cur"

\* xhr got a 401 for call c.
Unauthorized(c) ==
    LET rec == calls[c]
    IN  /\ UNCHANGED <<remote, nextRev>>
        /\ IF rec.sent >= 2 \/ session.state \in {"Unauthenticated", "LoggedOut"}
           THEN /\ calls' = [calls EXCEPT ![c] = Thrown(rec)]
                /\ ended' = {Caught(c, ErrResp(401, "none"), AuthError)}
                /\ UNCHANGED session
           ELSE IF StartsRefresh(rec, session)
           THEN /\ calls' = [calls EXCEPT ![c].pc = "await401"]
                /\ ended' = {}
                /\ session' = Refreshing
           ELSE IF session.state = "Refreshing"
           THEN /\ calls' = [calls EXCEPT ![c].pc = "await401"]
                /\ ended' = {}
                /\ UNCHANGED session
           ELSE /\ calls' = [calls EXCEPT ![c] = Dispatched(rec)]
                /\ ended' = {}
                /\ UNCHANGED session
        /\ UNCHANGED known

\* The service handled the authorized request of call c and xhr settled.
Served(c) ==
    LET rec  == calls[c]
        q    == rec.req.path
        f    == remote[q]
        resp == ServeResp(rec.req, f, nextRev)
        g    == ServeFile(rec.req, f, nextRev)
        end  == IF resp.status = 200
                THEN Ended(c, TRUE, resp, f, g, OpResult(rec.op, resp))
                ELSE Ended(c, TRUE, resp, f, g, ApiCallCatch(HttpError(resp)))
    IN  /\ g.rev = nextRev => nextRev <= MaxRev
        /\ remote' = [remote EXCEPT ![q] = g]
        /\ nextRev' = IF g.rev = nextRev THEN nextRev + 1 ELSE nextRev
        /\ calls' = [calls EXCEPT ![c] = Thrown(rec)]
        /\ ended' = {end}
        /\ known' = Learn({end}, IF g # f THEN q ELSE <<>>)
        /\ UNCHANGED session

\* The request of call c reached the service and its answer came back.
XhrComplete(c) ==
    /\ calls[c].pc = "sent"
    /\ IF calls[c].tok = "cur" /\ session.tokenOk THEN Served(c) ELSE Unauthorized(c)
    /\ UNCHANGED <<invoked, settings, seen, cfgResult, revoke, view, requests, otp, hw, files, workspace, fnArg, fnOut>>

\* The service answered call c with a failure of its own and changed nothing.
XhrFail(c, fault) ==
    /\ calls[c].pc = "sent"
    /\ calls[c].tok = "cur" /\ session.tokenOk
    /\ LET resp == ErrResp(fault[1], fault[2])
       IN  ended' = {Caught(c, resp, HttpError(resp))}
    /\ calls' = [calls EXCEPT ![c] = Thrown(calls[c])]
    /\ UNCHANGED <<remote, nextRev, session, known, invoked, settings, seen, cfgResult, revoke, view, requests, otp, hw, files, workspace, fnArg, fnOut>>

\* The transport of call c failed (no response, or a timeout).
XhrTransportFail(c) ==
    /\ calls[c].pc = "sent"
    /\ ended' = {Caught(c, NoResp, TransportError)}
    /\ calls' = [calls EXCEPT ![c] = Thrown(calls[c])]
    /\ UNCHANGED <<remote, nextRev, session, known, invoked, settings, seen, cfgResult, revoke, view, requests, otp, hw, files, workspace, fnArg, fnOut>>

\* The refresh exchange ended.
RefreshDone(ok) ==
    /\ session.state = "Refreshing"
    /\ IF ok
       THEN /\ session' = Authenticated
            /\ calls' = [c \in Calls |->
                   IF calls[c].pc \in {"authorize", "await401"} THEN Dispatched(calls[c])
                   ELSE IF calls[c].pc = "sent" THEN [calls[c] EXCEPT !.tok = "old"]
                   ELSE calls[c]]
            /\ ended' = {}
       ELSE /\ session' = LoggedOutSession("Unauthenticated")
            /\ calls' = [c \in Calls |->
                   IF calls[c].pc \in {"authorize", "await401"} THEN Thrown(calls[c])
                   ELSE IF calls[c].pc = "sent" THEN [calls[c] EXCEPT !.tok = "old"]
                   ELSE calls[c]]
            /\ ended' = {Caught(c, ErrResp(401, "none"), AuthError) :
                             c \in {x \in Calls : calls[x].pc = "await401"}}
                        \cup {Unauthorizable(c) :
                             c \in {x \in Calls : calls[x].pc = "authorize"}}
    /\ UNCHANGED <<remote, nextRev, known, invoked, settings, seen, cfgResult, revoke, view, requests, otp, hw, files, workspace, fnArg, fnOut>>

\* The access token expires.
TokenExpire ==
    /\ session.state = "Authenticated" /\ session.tokenOk
    /\ session' = [session EXCEPT !.tokenOk = FALSE, !.exchanges = 0]
    /\ ended' = {}
    /\ UNCHANGED <<remote, nextRev, calls, known, invoked, settings, seen, cfgResult, revoke, view, requests, otp, hw, files, workspace, fnArg, fnOut>>

\* Another client of the service writes the file at q.
RemoteWrite(q) ==
    /\ nextRev <= MaxRev
    /\ remote[q].kind # "folder"
    /\ remote' = [remote EXCEPT ![q] = [kind |-> "file", rev |-> nextRev, data |-> OtherData]]
    /\ nextRev' = nextRev + 1
    /\ known' = Learn({}, q)
    /\ ended' = {}
    /\ UNCHANGED <<session, calls, invoked, settings, seen, cfgResult, revoke, view, requests, otp, hw, files, workspace, fnArg, fnOut>>

\* The rev arguments a caller has at hand for path p: none, or the last one
\* a save or stat gave it.
RevArgs(op, p) == IF op = "save" THEN {NoRev, known[p].rev} ELSE {NoRev}

Next ==
    \/ \E c \in Calls, op \in Ops, p \in Paths, detect \in BOOLEAN :
          \E rev \in RevArgs(op, p), d \in (IF op = "save" THEN Data ELSE {NoValue}) :
             Invoke(c, op, p, rev, d, detect)
    \/ \E ok \in BOOLEAN : AuthorizeFlow(ok)
    \/ \E c \in Calls : XhrComplete(c)
    \/ \E c \in Calls, fault \in Faults : XhrFail(c, fault)
    \/ \E c \in Calls : XhrTransportFail(c)
    \/ \E ok \in BOOLEAN : RefreshDone(ok)
    \/ TokenExpire
    \/ \E q \in Paths : RemoteWrite(q)

Spec == Init /\ [][Next]_vars


\* ------------------------------------------------------ the configuration

\* What the configuration dialog may hand to applyConfig.
ConfigKeys == {NoValue, "k1", "k2", AppFolderId, FullDropboxId}
ConfigSecrets == {NoValue, "s1", "s2"}
ConfigFolders ==
    {NoFolder, <<>>, <<"/", "V">>, <<" ", "V", "\\", "W", " ">>, <<"/", " ", "V">>,
     <<"/", "/", "V">>}

Configs == [key : ConfigKeys, secret : ConfigSecrets, folder : ConfigFolders]

\* applyConfig(config): a built-in key is refused with Error('Bad key');
\* otherwise the folder is fixed and the three settings are stored.
AppliedConfig(st, config) ==
    IF IsBuiltInKey(config.key)
    THEN [result |-> "Bad key", seen |-> {}, settings |-> st]
    ELSE LET fixed == IF config.folder # NoFolder /\ config.folder # <<>>
                      THEN [config EXCEPT !.folder = fixConfigFolder(@)]
                      ELSE config
             out   == ApplyConfigStore(st, fixed)
         IN  [result |-> "ok", seen |-> out.seen, settings |-> out.settings]

\* A call of applyConfig(config) on the backend.
ApplyConfig(config) ==
    /\ cfgResult' = AppliedConfig(settings, config).result
    /\ seen' = AppliedConfig(settings, config).seen
    /\ settings' = AppliedConfig(settings, config).settings
    /\ UNCHANGED <<remote, nextRev, session, calls, ended, known, invoked, revoke, view, requests, otp, hw, files, workspace, fnArg, fnOut>>

\* --------------------------------------------------- applySetting, logout

\* `(${Locale.dropboxAppKeyHint})`: the key stored when the link is custom.
AppKeyHint == "(hint)"

\* applySetting: the setting assigned for key and value (<<>>: none).
SettingAssignment(key, value) ==
    CASE key = "link" /\ value = "app"    -> <<"dropboxAppKey", AppFolderId>>
      [] key = "link" /\ value = "full"   -> <<"dropboxAppKey", FullDropboxId>>
      [] key = "link" /\ value = "custom" -> <<"dropboxAppKey", AppKeyHint>>
      [] key = "key"                      -> <<"dropboxAppKey", value>>
      [] key = "secret"                   -> <<"dropboxSecret", value>>
      [] key = "folder"                   -> <<"dropboxFolder", fixConfigFolder(value)>>
      [] OTHER                            -> <<>>

LogsOutOnAnyKey(key, value) == TRUE

\* applySetting: the cases that end with this.logout().catch(noop).
LogsOut(key, value) ==
    \/ key = "link" /\ value \in {"app", "full", "custom"}
    \/ key \in {"key", "secret"}

\* oauthRevokeToken: whether the session holds a token to revoke.
HasToken(sess) == sess.state \in {"Authenticated", "Refreshing"}

OAuthRevokeTokenSurfaced(ok) == [rejected |-> ~ok, logged |-> ~ok]

\* oauthRevokeToken when its revocation request ended: a failure is logged
\* and the promise resolves all the same.
OAuthRevokeToken(ok) == [rejected |-> FALSE, logged |-> ~ok]

\* promise.catch(noop)
CatchNoop(out) == [out EXCEPT !.rejected = FALSE]

\* logout(), called by `by`: oauthRevokeToken clears the token state of the
\* session and, when there was a token, asks the service to revoke it. Calls
\* waiting for a refresh fail; requests in flight carry a token that is no
\* longer the session's. One logout is followed at a time.
LogoutStarts(by) ==
    /\ revoke.pc # "pending"
    /\ session' = LoggedOutSession("LoggedOut")
    /\ calls' = [c \in Calls |->
           IF calls[c].pc = "await401" THEN Thrown(calls[c])
           ELSE IF calls[c].pc = "sent" THEN [calls[c] EXCEPT !.tok = "old"]
           ELSE calls[c]]
    /\ ended' = {Caught(c, ErrResp(401, "none"), AuthError) :
                     c \in {x \in Calls : calls[x].pc = "await401"}}
    /\ revoke' = [pc |-> IF HasToken(session) THEN "pending" ELSE "done", by |-> by,
                  request |-> HasToken(session), rejected |-> FALSE, logged |-> FALSE]

\* applySetting(key, value)
ApplySetting(key, value) ==
    /\ invoked < MaxInvocations
    /\ invoked' = invoked + 1
    /\ LET a == SettingAssignment(key, value)
       IN  IF a = <<>>
           THEN UNCHANGED <<settings, seen>>
           ELSE /\ settings' = Assigned(settings, a)
                /\ seen' = {Assigned(settings, a)}
    /\ IF LogsOut(key, value)
       THEN LogoutStarts("applySetting")
       ELSE /\ ended' = {}
            /\ UNCHANGED <<session, calls, revoke>>
    /\ UNCHANGED <<remote, nextRev, known, cfgResult, view, requests, otp, hw, files, workspace, fnArg, fnOut>>

\* logout() called from outside the backend.
Logout ==
    /\ invoked < MaxInvocations
    /\ invoked' = invoked + 1
    /\ LogoutStarts("logout")
    /\ UNCHANGED <<remote, nextRev, known, settings, seen, cfgResult, view, requests, otp, hw, files, workspace, fnArg, fnOut>>

\* The revocation request ended: logout() settles.
RevokeDone(ok) ==
    /\ revoke.pc = "pending"
    /\ LET out == OAuthRevokeToken(ok)
           got == IF revoke.by = "applySetting" THEN CatchNoop(out) ELSE out
       IN  revoke' = [revoke EXCEPT !.pc = "done", !.rejected = got.rejected,
                                    !.logged = got.logged]
    /\ ended' = {}
    /\ UNCHANGED <<remote, nextRev, session, calls, known, invoked, settings, seen,
                   cfgResult, view, requests, otp, hw, files, workspace, fnArg, fnOut>>

\* What the settings page hands to applySetting while calls are made.
SettingInputs ==
    {<<"link", "app">>, <<"link", "custom">>, <<"link", "other">>, <<"key", "k1">>,
     <<"secret", "s1">>, <<"folder", <<"/", "V">>>>, <<"other", "x">>}

NextSettings ==
    \/ \E c \in Calls, op \in {"load", "save"}, p \in Paths, detect \in BOOLEAN :
          \E d \in (IF op = "save" THEN Data ELSE {NoValue}) :
             Invoke(c, op, p, NoRev, d, detect)
    \/ \E ok \in BOOLEAN : AuthorizeFlow(ok)
    \/ \E c \in Calls : XhrComplete(c)
    \/ \E ok \in BOOLEAN : RefreshDone(ok)
    \/ TokenExpire
    \/ \E kv \in SettingInputs : ApplySetting(kv[1], kv[2])
    \/ Logout
    \/ \E ok \in BOOLEAN : RevokeDone(ok)

SpecSettings == Init /\ [][NextSettings]_vars

\* What the settings page may hand to applySetting as the folder.
FolderInputs == ConfigFolders \ {NoFolder}

NextConfig ==
    \/ \E config \in Configs : ApplyConfig(config)
    \/ \E value \in FolderInputs : ApplySetting("folder", value)

SpecConfig == Init /\ [][NextConfig]_vars

\* ------------------------------------------------------- the path resolver

\* String.prototype.toLowerCase, on the characters paths are made of here.
LowerChar(ch) == IF ch = "V" THEN "v" ELSE ch
toLowerCase(s) == [i \in 1..Len(s) |-> LowerChar(s[i])]

\* String.prototype.indexOf: the first position (from 0) of t in s, or -1.
OccursAt(s, t, i) == i + Len(t) <= Len(s) /\ SubSeq(s, i + 1, i + Len(t)) = t
indexOf(s, t) ==
    IF \E i \in 0..Len(s) : OccursAt(s, t, i)
    THEN CHOOSE i \in 0..Len(s) :
            OccursAt(s, t, i) /\ \A j \in 0..(i - 1) : ~OccursAt(s, t, j)
    ELSE -1

\* String.prototype.substr(n)
substr(s, n) == SubSeq(s, n + 1, Len(s))

toRelPathCaseSensitive(rootFolder, path) ==
    IF rootFolder # NoFolder /\ rootFolder # <<>>
    THEN LET ix == indexOf(path, rootFolder)
         IN  fixSlashes(<<"/">> \o (IF ix = 0 THEN substr(path, Len(rootFolder))
                                    ELSE IF ix = 1 THEN substr(path, Len(rootFolder) + 1)
                                    ELSE path))
    ELSE path

\* toRelPath: the root folder, found at position 0 or 1 whatever its case,
\* is cut off the path when one is set.
toRelPath(rootFolder, path) ==
    IF rootFolder # NoFolder /\ rootFolder # <<>>
    THEN LET ix == indexOf(toLowerCase(path), toLowerCase(rootFolder))
         IN  fixSlashes(<<"/">> \o (IF ix = 0 THEN substr(path, Len(rootFolder))
                                    ELSE IF ix = 1 THEN substr(path, Len(rootFolder) + 1)
                                    ELSE path))
    ELSE path

\* --------------------------------------------------------------- the listing

\* The entries a list response may hold: JSON objects whose name, path_display
\* and rev are strings, absent or of another type, and entries that are no
\* objects (null, a number).
Entry(kind, name, nameType, path, pathType, revType, tag) ==
    [kind |-> kind, name |-> name, nameType |-> nameType, path_display |-> path,
     pathType |-> pathType, rev |-> IF revType = "string" THEN 1 ELSE NoRev,
     revType |-> revType, tag |-> tag]

EntryPool ==
    {Entry("object", "f", "string", <<"/", "V", "/", "f">>, "string", "string", "file"),
     Entry("object", "d", "string", <<"/", "v", "/", "d">>, "string", "undefined", "folder"),
     Entry("object", "t", "string", <<"/", "t">>, "string", "undefined", "none"),
     Entry("object", "n", "undefined", <<"/", "n">>, "string", "string", "file"),
     Entry("object", "p", "string", <<>>, "undefined", "string", "file"),
     Entry("object", "r", "string", <<"/", "r">>, "string", "number", "file"),
     Entry("number", "x", "undefined", <<>>, "undefined", "undefined", "none"),
     Entry("null", "z", "undefined", <<>>, "undefined", "undefined", "none")}

\* The longest entries array followed.
MaxEntries == 2

\* response.data of files/list_folder: with or without an entries array.
ListData ==
    {[hasEntries |-> TRUE, entries |-> es] :
        es \in UNION {[1..n -> EntryPool] : n \in 0..MaxEntries}}
    \cup {[hasEntries |-> FALSE, entries |-> <<>>]}

\* list: the entries the loop passes over.
Skipped(entry) ==
    \/ entry.nameType # "string"
    \/ entry.pathType # "string"
    \/ entry.revType \notin {"undefined", "string"}

\* list: the item pushed for an entry.
ListItem(rootFolder, entry) ==
    [name |-> entry.name, path |-> toRelPath(rootFolder, entry.path_display),
     rev |-> entry.rev, dir |-> entry.tag # "file"]

RECURSIVE ListItems(_, _)
ListItems(rootFolder, entries) ==
    IF entries = <<>> THEN <<>>
    ELSE (IF Skipped(Head(entries)) THEN <<>> ELSE <<ListItem(rootFolder, Head(entries))>>)
         \o ListItems(rootFolder, Tail(entries))

\* list, once apiCall returned the response: 'Empty response' without an
\* entries array; reading a property of a null entry throws a TypeError.
ListReturn(rootFolder, data) ==
    IF ~data.hasEntries THEN [err |-> "Empty response", items |-> <<>>]
    ELSE IF \E i \in 1..Len(data.entries) : data.entries[i].kind = "null"
    THEN [err |-> "TypeError", items |-> <<>>]
    ELSE [err |-> "none", items |-> ListItems(rootFolder, data.entries)]

\* ------------------------------------------------------------ the open view

\* The values Math.random() gives to storageWaitId.
MaxWaitId == 2
WaitIds == 1..MaxWaitId

\* The storages offered by the open view. dropbox is StorageDropbox, whose
\* applyConfig(config) takes no callback; legacy has an applyConfig that calls
\* the callback the view passes; other has no applyConfig and is asked for stat.
Storages == {"dropbox", "legacy", "other"}
HasApplyConfig(storage) == storage \in {"dropbox", "legacy"}

\* applyConfig called without a config.
NoConfig == [storage |-> NoValue, path |-> NoValue, opts |-> NoOpts]

\* omit(config, ['path', 'storage']): the fields typed into the dialog.
CustomOpts == [key |-> "k1", secret |-> "s1", folder |-> NoFolder]
BuiltInOpts == [key |-> AppFolderId, secret |-> NoValue, folder |-> NoFolder]

\* What the configuration dialog hands to the open view's applyConfig.
ViewConfigs ==
    {[storage |-> st, path |-> "p1", opts |-> CustomOpts] : st \in Storages} \cup
    {[storage |-> "dropbox", path |-> "p1", opts |-> BuiltInOpts], NoConfig}

\* The state of the storages and of the settings.
backend ==
    <<remote, nextRev, session, calls, ended, known, invoked, settings, seen, cfgResult, revoke>>

\* What the open view leaves alone.
outside ==
    <<remote, nextRev, session, calls, ended, known, invoked, revoke, hw, files, workspace, fnArg, fnOut>>

\* showConfig(storage)
ShowConfig(storage) ==
    /\ ~view.busy
    /\ view' = [view EXCEPT !.openConfig =
                    [shown |-> TRUE, storage |-> storage, disabled |-> FALSE, error |-> NoValue]]
    /\ UNCHANGED <<requests, otp, settings, seen, cfgResult, outside>>

\* closeConfig() applied to the fields of the view.
Closed(v) ==
    [v EXCEPT !.storageWaitId = IF v.busy THEN NoWaitId ELSE @,
              !.busy = FALSE,
              !.openConfig = NoConfigView]

\* The requests a completion can still come for, and the last one completed.
Answerable(reqs) == {r \in reqs : r.state \notin {"threw", "unanswered"}}

\* closeConfig(): the dialog's cancel event.
CloseConfig ==
    /\ view.openConfig.shown
    /\ view' = Closed(view)
    /\ requests' = Answerable(requests)
    /\ UNCHANGED <<otp, settings, seen, cfgResult, outside>>

\* Math.random(): a value no request still known carries.
FreshWaitIds == WaitIds \ ({r.waitId : r \in requests} \cup {view.storageWaitId})

\* What becomes of the request once storage.applyConfig or storage.stat was
\* called: StorageDropbox.applyConfig throws on a built-in key and otherwise
\* returns a promise, never calling the callback; the others call back later.
Issued(config) ==
    IF config.storage = "dropbox"
    THEN IF AppliedConfig(settings, config.opts).result = "Bad key"
         THEN "threw" ELSE "unanswered"
    ELSE "pending"

RefusesWithoutConfig(v, config) == config = NoConfig

\* The check applyConfig starts with: this.busy || !config
Refuses(v, config) == v.busy \/ config = NoConfig

\* applyConfig(config): the apply event of the dialog, which showConfig made
\* for one storage.
OpenViewApplyConfig(config, waitId) ==
    /\ view.openConfig.shown
    /\ config.storage \in {view.openConfig.storage, NoValue}
    /\ IF Refuses(view, config)
       THEN UNCHANGED <<view, requests, settings, seen, cfgResult>>
       ELSE /\ waitId \in FreshWaitIds
            /\ view' = [view EXCEPT !.busy = TRUE, !.openConfig.disabled = TRUE,
                                    !.storageWaitId = waitId]
            /\ requests' = requests \cup
                   {[waitId |-> waitId, storage |-> config.storage, path |-> config.path,
                     opts |-> config.opts,
                     for |-> IF HasApplyConfig(config.storage) THEN "applyConfig" ELSE "stat",
                     state |-> Issued(config)]}
            /\ IF config.storage = "dropbox"
               THEN /\ cfgResult' = AppliedConfig(settings, config.opts).result
                    /\ seen' = AppliedConfig(settings, config.opts).seen
                    /\ settings' = AppliedConfig(settings, config.opts).settings
               ELSE UNCHANGED <<settings, seen, cfgResult>>
    /\ UNCHANGED <<otp, outside>>

CompletionNeverStale(v, req) == FALSE

\* The check a completion starts with: this.storageWaitId !== req.waitId
CompletionIsStale(v, req) == v.storageWaitId # req.waitId

\* The requests once req completed, as the view took the completion.
Settle(req, v) ==
    {r \in requests \ {req} : r.state \notin {"ignored", "handled"}} \cup
        {[req EXCEPT !.state = IF CompletionIsStale(v, req) THEN "ignored" ELSE "handled"]}

\* What a completion does first when it is not stale.
Completed(v) == [v EXCEPT !.storageWaitId = NoWaitId, !.busy = FALSE]

\* What a completion with an error does to the dialog.
Failed(v, err) == [v EXCEPT !.openConfig.disabled = FALSE, !.openConfig.error = err]

\* storageApplyConfigComplete(req, err)
StorageApplyConfigComplete(req, err) ==
    /\ req \in requests /\ req.for = "applyConfig" /\ req.state = "pending"
    /\ requests' = Settle(req, view)
    /\ view' = IF CompletionIsStale(view, req) THEN view
               ELSE IF err # NoValue THEN Failed(Completed(view), err)
               ELSE Closed(Completed(view))
    /\ UNCHANGED <<otp, settings, seen, cfgResult, outside>>

\* storageStatComplete(req, err, stat)
StorageStatComplete(req, err, stat) ==
    /\ req \in requests /\ req.for = "stat" /\ req.state = "pending"
    /\ requests' = Settle(req, view)
    /\ view' = IF CompletionIsStale(view, req) THEN view
               ELSE IF err # NoValue THEN Failed(Completed(view), err)
               ELSE [Closed(Completed(view)) EXCEPT !.params =
                        [id |-> NoValue, storage |-> req.storage, path |-> req.path,
                         opts |-> req.opts, rev |-> stat.rev, fileData |-> NoValue]]
    /\ UNCHANGED <<otp, settings, seen, cfgResult, outside>>

\* What a storage may complete a request with.
Errs == {NoValue, "err"}
Stats == {[rev |-> NoRev], [rev |-> 1]}

\* How many OTP device openings the view is let start.
MaxOtpOpens == 2
OtpIds == 1..MaxOtpOpens

\* otpDevice.cancelOpen(): the opening of that device is asked to stop.
CancelOpen(ops, device) ==
    {IF o.id = device THEN [o EXCEPT !.cancelled = TRUE] ELSE o : o \in ops}

\* usbDevicesChanged()
UsbDevicesChanged(canOpenOtpDevice, hasYubiKeys) ==
    /\ otp' = IF canOpenOtpDevice /\ ~hasYubiKeys /\ view.busy /\ view.otpDevice # NoOtp
              THEN CancelOpen(otp, view.otpDevice)
              ELSE otp
    /\ UNCHANGED <<view, requests, settings, seen, cfgResult, outside>>

\* openYubiKey(): when the view is not busy it becomes busy and asks
\* YubiKey.checkToolStatus(); id names the opening this starts.
OpenYubiKey(id) ==
    /\ id \notin {o.id : o \in otp}
    /\ \A other \in OtpIds : other < id => other \in {o.id : o \in otp}
    /\ otp' = (IF view.busy /\ view.otpDevice # NoOtp
               THEN CancelOpen(otp, view.otpDevice) ELSE otp) \cup
              (IF ~view.busy
               THEN {[id |-> id, phase |-> "checking", cancelled |-> FALSE]} ELSE {})
    /\ view' = [view EXCEPT !.busy = TRUE]
    /\ UNCHANGED <<requests, settings, seen, cfgResult, outside>>

\* YubiKey.checkToolStatus() resolved with status: the view gives up when the
\* status is not 'ok', and otherwise calls model.openOtpDevice.
ToolStatusChecked(o, status) ==
    /\ o \in otp /\ o.phase = "checking"
    /\ IF status # "ok"
       THEN /\ view' = [view EXCEPT !.busy = FALSE]
            /\ otp' = otp \ {o}
       ELSE /\ view' = [view EXCEPT !.otpDevice = o.id]
            /\ otp' = (otp \ {o}) \cup {[o EXCEPT !.phase = "opening"]}
    /\ UNCHANGED <<requests, settings, seen, cfgResult, outside>>

\* The callback of model.openOtpDevice.
OtpDeviceOpened(o) ==
    /\ o \in otp /\ o.phase = "opening"
    /\ view' = [view EXCEPT !.otpDevice = NoOtp, !.busy = FALSE]
    /\ otp' = otp \ {o}
    /\ UNCHANGED <<requests, settings, seen, cfgResult, outside>>

ToolStatuses == {"ok", "error"}

NextOpenView ==
    \/ \E storage \in Storages : ShowConfig(storage)
    \/ CloseConfig
    \/ \E config \in ViewConfigs, waitId \in WaitIds : OpenViewApplyConfig(config, waitId)
    \/ \E req \in requests, err \in Errs : StorageApplyConfigComplete(req, err)
    \/ \E req \in requests, err \in Errs, stat \in Stats : StorageStatComplete(req, err, stat)

\* The dialog and the storage requests of the open view.
SpecOpenView == Init /\ [][NextOpenView]_vars

NextOpenViewOtp ==
    \/ \E storage \in Storages : ShowConfig(storage)
    \/ CloseConfig
    \/ \E config \in ViewConfigs, waitId \in WaitIds : OpenViewApplyConfig(config, waitId)
    \/ \E req \in requests, err \in Errs : StorageApplyConfigComplete(req, err)
    \/ \E req \in requests, err \in Errs, stat \in Stats : StorageStatComplete(req, err, stat)
    \/ \E can \in BOOLEAN, has \in BOOLEAN : UsbDevicesChanged(can, has)
    \/ \E id \in OtpIds : OpenYubiKey(id)
    \/ \E o \in otp, status \in ToolStatuses : ToolStatusChecked(o, status)
    \/ \E o \in otp : OtpDeviceOpened(o)

\* The same with the OTP device of openYubiKey.
SpecOpenViewOtp == Init /\ [][NextOpenViewOtp]_vars

\* ------------------------------------------------------------------ openDb

\* How far the clock runs (in minutes) and how many decryptions are started.
MaxNow == 3
MaxDecrypts == 2

\* settings.deviceOwnerAuthTimeoutMinutes
deviceOwnerAuthTimeoutMinutes == 1

\* What openDb leaves alone.
besideOpenDb == <<backend, view, requests, otp, files, workspace, fnArg, fnOut>>

\* The clock moves on by a minute.
Tick ==
    /\ hw.now < MaxNow
    /\ hw' = [hw EXCEPT !.now = @ + 1]
    /\ UNCHANGED besideOpenDb

\* maxDate < new Date(), maxDate being the date moved on by the timeout.
Expired(encryptedPassword, now) ==
    encryptedPassword.date + deviceOwnerAuthTimeoutMinutes < now

\* checkIfEncryptedPasswordDateIsValid() applied to this.encryptedPassword
Checked(encryptedPassword, now) ==
    IF encryptedPassword # NoEncryptedPassword /\ Expired(encryptedPassword, now)
    THEN NoEncryptedPassword
    ELSE encryptedPassword

\* windowFocused()
WindowFocused ==
    /\ hw' = [hw EXCEPT !.encryptedPassword = Checked(@, hw.now)]
    /\ UNCHANGED besideOpenDb

\* setEncryptedPassword(fileInfo): stored is what model.getMemoryPassword gives.
SetEncryptedPassword(fileInfo, deviceOwnerAuth, stored) ==
    /\ hw' = [hw EXCEPT !.encryptedPassword =
                 IF fileInfo.id = NoValue THEN NoEncryptedPassword
                 ELSE Checked(CASE deviceOwnerAuth = "memory" -> stored
                                [] deviceOwnerAuth = "file" ->
                                       [set |-> TRUE, date |-> fileInfo.encryptedPasswordDate]
                                [] OTHER -> NoEncryptedPassword,
                              hw.now)]
    /\ UNCHANGED besideOpenDb

\* openDb(): with an encrypted password and no password typed, the event
\* 'hardware-decrypt-started' is emitted and NativeModules.hardwareDecrypt called.
OpenDb ==
    /\ IF hw.encryptedPassword # NoEncryptedPassword /\ hw.passwordLength = 0
       THEN /\ hw.started < MaxDecrypts
            /\ hw' = [hw EXCEPT
                         !.events = Append(@, "hardware-decrypt-started"),
                         !.started = @ + 1,
                         !.decrypts = @ \cup {[id |-> hw.started + 1,
                                               date |-> hw.encryptedPassword.date,
                                               at |-> hw.now]}]
       ELSE hw' = [hw EXCEPT !.paramsEncryptedPassword = NoEncryptedPassword]
    /\ UNCHANGED besideOpenDb

DecryptedEventsLate(ok) ==
    IF ok THEN <<"openFile", "hardware-decrypt-finished">>
    ELSE <<"openDbComplete", "hardware-decrypt-finished">>

\* What the handlers of the promise of hardwareDecrypt emit and call, in order.
DecryptedEvents(ok) ==
    IF ok THEN <<"hardware-decrypt-finished", "openFile">>
    ELSE <<"hardware-decrypt-finished", "openDbComplete">>

\* The promise of NativeModules.hardwareDecrypt resolved (ok) or was rejected.
HardwareDecrypted(d, ok) ==
    /\ d \in hw.decrypts
    /\ hw' = [hw EXCEPT
                 !.decrypts = @ \ {d},
                 !.events = @ \o DecryptedEvents(ok),
                 !.passwordLength = IF ok THEN 1 ELSE @,
                 !.paramsEncryptedPassword = IF ok THEN hw.encryptedPassword ELSE @]
    /\ UNCHANGED besideOpenDb

\* What setEncryptedPassword is called with: the date of an encrypted
\* password is the moment it was saved, not later than now.
FileInfos(now) ==
    {[id |-> id, encryptedPasswordDate |-> date] : id \in {NoValue, "f1"}, date \in 0..now}
DeviceOwnerAuths == {"memory", "file", NoValue}
MemoryPasswords(now) ==
    {NoEncryptedPassword} \cup {[set |-> TRUE, date |-> date] : date \in 0..now}

NextOpenDb ==
    \/ Tick
    \/ WindowFocused
    \/ \E fileInfo \in FileInfos(hw.now), deviceOwnerAuth \in DeviceOwnerAuths,
          stored \in MemoryPasswords(hw.now) :
          SetEncryptedPassword(fileInfo, deviceOwnerAuth, stored)
    \/ OpenDb
    \/ \E d \in hw.decrypts, ok \in BOOLEAN : HardwareDecrypted(d, ok)

SpecOpenDb == Init /\ [][NextOpenDb]_vars

\* ----------------------------------------------------------- the workspace

\* The files that can be opened.
FileIds == {"f1", "f2"}

\* The tags of entries: kept free of commas and never empty by the parser of
\* the tags field. "V" and "v" differ by case only.
TagPool == {<<"V">>, <<"v">>, <<"a">>}

\* The tags of the entries of a file, in the order file.entriesMatching meets them.
TagLists == {<<>>, <<<<"V">>>>, <<<<"v">>, <<"a">>>>, <<<<"a">>, <<"a">>>>}

\* How many items the tags section of the menu is let hold.
MaxTagItems == 3

\* What the workspace leaves alone.
besideWorkspace == <<backend, view, requests, otp, hw, fnArg, fnOut>>

\* UTF-16 code units, which Array.prototype.sort compares strings by.
CodeUnit(ch) ==
    CASE ch = "," -> 44 [] ch = "V" -> 86 [] ch = "a" -> 97 [] ch = "v" -> 118

RECURSIVE Before(_, _)
Before(s, t) ==
    IF t = <<>> THEN FALSE
    ELSE IF s = <<>> THEN TRUE
    ELSE IF s[1] = t[1] THEN Before(Tail(s), Tail(t))
    ELSE CodeUnit(s[1]) < CodeUnit(t[1])

\* newTags.sort()
sort(tags) == SortSeq(tags, Before)

\* Array.prototype.join(',')
RECURSIVE join(_)
join(tags) ==
    IF tags = <<>> THEN <<>>
    ELSE IF Len(tags) = 1 THEN tags[1]
    ELSE tags[1] \o <<",">> \o join(Tail(tags))

\* What a Set knows a tag by: the tag itself in getTags, tag.toLowerCase() in
\* updateTags.
Key(tag, lower) == IF lower THEN toLowerCase(tag) ELSE tag

\* The tags of list whose key is not among keys yet, each once, in the order met.
RECURSIVE KeepFirst(_, _, _, _)
KeepFirst(list, lower, keys, kept) ==
    IF list = <<>> THEN kept
    ELSE IF Key(Head(list), lower) \in keys THEN KeepFirst(Tail(list), lower, keys, kept)
    ELSE KeepFirst(Tail(list), lower, keys \cup {Key(Head(list), lower)},
                   Append(kept, Head(list)))

\* getTags(file): a Set of the tags of the entries of the file.
getTags(file) == KeepFirst(file.tags, FALSE, {}, <<>>)

\* The tags the loops of updateTags go through, file after file.
RECURSIVE TagsMet(_)
TagsMet(fs) == IF fs = <<>> THEN <<>> ELSE getTags(Head(fs)) \o TagsMet(Tail(fs))

newTagsUnsorted(fs) == KeepFirst(TagsMet(fs), TRUE, {}, <<>>)

\* updateTags: newTags after newTags.sort()
newTags(fs) == sort(KeepFirst(TagsMet(fs), TRUE, {}, <<>>))

\* updateTags: this.tags.join(',') !== newTags.join(',')
TagsDiffer(old, new) == join(old) # join(new)

\* tagsChanged()
tagsChanged(ws) ==
    IF ws.tags # <<>>
    THEN [ws EXCEPT !.tagsSection = [scrollable |-> TRUE, items |-> @.items \o ws.tags],
                    !.tagsChangedRan = TRUE]
    ELSE [ws EXCEPT !.tagsSection = [scrollable |-> FALSE, items |-> <<>>],
                    !.tagsChangedRan = TRUE]

\* updateTags()
updateTags(ws, fs) ==
    IF TagsDiffer(ws.tags, newTags(fs))
    THEN tagsChanged([ws EXCEPT !.tags = newTags(fs)])
    ELSE ws

\* items.find((it) => it.file === file)
Listed(items, file) == \E i \in 1..Len(items) : items[i].file = file.id
Find(items, file) ==
    items[CHOOSE i \in 1..Len(items) :
              /\ items[i].file = file.id
              /\ \A j \in 1..(i - 1) : items[j].file # file.id]

\* file.groups[0]
FirstGroup(file) == [file |-> file.id, made |-> file.loaded]

\* new MenuItem({icon: 'lock', title: file.name, page: 'file', file}): an
\* object that none of the items made for the file before is.
NewMenuItem(items, file) ==
    [file |-> file.id,
     made |-> CHOOSE n \in 0..Len(items) :
                  /\ \A i \in 1..Len(items) : items[i] # [file |-> file.id, made |-> n]
                  /\ \A m \in 0..(n - 1) :
                         \E i \in 1..Len(items) : items[i] = [file |-> file.id, made |-> m]]

FilesItemAlwaysNew(items, file) == <<NewMenuItem(items, file)>>

\* filesChanged: what a file adds to filesSectionItems.
FilesItem(items, file) ==
    IF Listed(items, file) THEN <<Find(items, file)>> ELSE <<NewMenuItem(items, file)>>

\* filesChanged: what a file adds to groupsSectionItems.
GroupsItem(items, file) ==
    IF Listed(items, file) THEN <<Find(items, file)>>
    ELSE IF file.hasGroups THEN <<FirstGroup(file)>>
    ELSE <<>>

RECURSIVE filesSectionItems(_, _)
filesSectionItems(items, fs) ==
    IF fs = <<>> THEN <<>>
    ELSE FilesItem(items, Head(fs)) \o filesSectionItems(items, Tail(fs))

RECURSIVE groupsSectionItems(_, _)
groupsSectionItems(items, fs) ==
    IF fs = <<>> THEN <<>>
    ELSE GroupsItem(items, Head(fs)) \o groupsSectionItems(items, Tail(fs))

\* filesChanged(), run when FileManager.files changed to fs.
filesChanged(ws, fs) ==
    [updateTags(ws, fs) EXCEPT
        !.groupsSection = groupsSectionItems(ws.groupsSection, fs),
        !.filesSection = filesSectionItems(ws.filesSection, fs)]

\* reloadFile(file)
reloadFile(ws, fs, file) ==
    updateTags([ws EXCEPT !.groupsSection =
                    [i \in 1..Len(@) |-> IF @[i].file = file.id THEN FirstGroup(file) ELSE @[i]]],
               fs)

\* A handler of the workspace starts: tagsChanged has not run in it.
Entered(ws) == [ws EXCEPT !.tagsChangedRan = FALSE]

\* The tags section stays within the size it is let have.
Within(ws) == Len(ws.tagsSection.items) <= MaxTagItems

OpenIds == {files[i].id : i \in 1..Len(files)}

\* The files that can be added: hasGroups tells whether file.groups is empty.
NewFiles ==
    {[id |-> id, tags |-> tags, hasGroups |-> hasGroups, loaded |-> 0] :
        id \in FileIds, tags \in TagLists, hasGroups \in BOOLEAN}

\* addFile(file): FileManager.addFile(file) puts the file last and filesChanged runs.
AddFile(file) ==
    /\ file.id \notin OpenIds
    /\ files' = Append(files, file)
    /\ workspace' = filesChanged(Entered(workspace), files')
    /\ Within(workspace')
    /\ UNCHANGED besideWorkspace

\* closeFile(file): FileManager.close(file) takes the file out and filesChanged runs.
CloseFile(i) ==
    /\ i \in 1..Len(files)
    /\ files' = SubSeq(files, 1, i - 1) \o SubSeq(files, i + 1, Len(files))
    /\ workspace' = filesChanged(Entered(workspace), files')
    /\ Within(workspace')
    /\ UNCHANGED besideWorkspace

\* closeAllFiles()
CloseAllFiles ==
    /\ files # <<>>
    /\ files' = <<>>
    /\ workspace' = filesChanged(Entered(workspace), files')
    /\ UNCHANGED besideWorkspace

\* The file emits 'reload': its entries were read again, with the tags given,
\* and its groups are new objects; reloadFile(file) runs.
ReloadFile(i, tags) ==
    /\ i \in 1..Len(files)
    /\ files' = [files EXCEPT ![i].tags = tags, ![i].loaded = 1 - @]
    /\ workspace' = reloadFile(Entered(workspace), files', files'[i])
    /\ Within(workspace')
    /\ UNCHANGED besideWorkspace

\* file.renameTag(from, to): the entries that carry the tag carry the new one instead.
Renamed(file, from, to) ==
    [file EXCEPT !.tags = [i \in 1..Len(@) |-> IF @[i] = from THEN to ELSE @[i]]]

\* renameTag(from, to)
RenameTag(from, to) ==
    /\ files' = [i \in 1..Len(files) |-> Renamed(files[i], from, to)]
    /\ workspace' = updateTags(Entered(workspace), files')
    /\ Within(workspace')
    /\ UNCHANGED besideWorkspace

NextWorkspace ==
    \/ \E file \in NewFiles : AddFile(file)
    \/ \E i \in 1..Len(files) : CloseFile(i)
    \/ CloseAllFiles
    \/ \E i \in 1..Len(files), tags \in TagLists : ReloadFile(i, tags)
    \/ \E from \in TagPool, to \in TagPool : RenameTag(from, to)

SpecWorkspace == Init /\ [][NextWorkspace]_vars

\* ------------------------------------------------------- needShowOpenConfig

\* DropboxApps.AppFolder.secret / DropboxApps.FullDropbox.secret
AppFolderSecret == "appfolder-secret"
FullDropboxSecret == "fulldropbox-secret"

\* The application keys that hold a space.
KeysWithSpace == {"k 1", " "}

\* A value a condition takes as true (neither undefined nor the empty string).
Truthy(v) == v # NoValue /\ v # ""

\* getKey: AppSettings.dropboxAppKey || DropboxApps.AppFolder.id
getKey(st) == IF Truthy(st.dropboxAppKey) THEN st.dropboxAppKey ELSE AppFolderId

\* getSecret: the built-in secret of a built-in key, else the stored secret.
getSecret(st) ==
    CASE getKey(st) = AppFolderId   -> AppFolderSecret
      [] getKey(st) = FullDropboxId -> FullDropboxSecret
      [] OTHER                      -> st.dropboxSecret

\* canUseBuiltInKeys: !Features.isSelfHosted
canUseBuiltInKeys(isSelfHosted) == ~isSelfHosted

isValidKeyWithoutSpaceCheck(st, isSelfHosted) ==
    /\ Truthy(getKey(st))
    /\ (~IsBuiltInKey(getKey(st)) \/ canUseBuiltInKeys(isSelfHosted))

\* isValidKey: key && key.indexOf(' ') < 0 && (!isBuiltIn || canUseBuiltInKeys())
isValidKey(st, isSelfHosted) ==
    /\ Truthy(getKey(st))
    /\ getKey(st) \notin KeysWithSpace
    /\ (~IsBuiltInKey(getKey(st)) \/ canUseBuiltInKeys(isSelfHosted))

\* needShowOpenConfig: !this.isValidKey() || !this.getSecret()
needShowOpenConfig(st, isSelfHosted) ==
    ~isValidKey(st, isSelfHosted) \/ ~Truthy(getSecret(st))

\* ------------------------------------------------ the Dropbox-API-Arg header

\* Strings are sequences of UTF-16 code units. The code units followed: a
\* line feed, a control character, the ends of printable ASCII, a quote, a
\* letter, a backslash, DEL, and units of two, three and four hex digits.
CodeUnits == {10, 31, 32, 34, 65, 92, 126, 127, 128, 233, 4095, 55357, 65535}

\* The longest string value of apiArg followed.
MaxArgLen == 2

\* The digit d in Number.prototype.toString(16): '0'..'9', 'a'..'f'.
HexChar(d) == IF d < 10 THEN 48 + d ELSE 87 + d

\* c.charCodeAt(0).toString(16)
RECURSIVE toString16(_)
toString16(n) ==
    IF n < 16 THEN <<HexChar(n)>> ELSE toString16(n \div 16) \o <<HexChar(n % 16)>>

\* '\\u' + ('000' + c.charCodeAt(0).toString(16)).slice(-4)
EscapeUnit(c) ==
    LET padded == <<48, 48, 48>> \o toString16(c)
    IN  <<92, 117>> \o SubSeq(padded, Len(padded) - 3, Len(padded))

\* JSON.stringify of the characters of a string value: quote, backslash and
\* the control characters are escaped, every other code unit is kept (a lone
\* surrogate a newer engine escapes here gets the same text below).
QuoteJSONChar(c) ==
    CASE c = 34 -> <<92, 34>>
      [] c = 92 -> <<92, 92>>
      [] c = 10 -> <<92, 110>>
      [] c < 32 /\ c # 10 -> EscapeUnit(c)
      [] OTHER -> <<c>>

RECURSIVE QuoteJSONChars(_)
QuoteJSONChars(str) ==
    IF str = <<>> THEN <<>> ELSE QuoteJSONChar(Head(str)) \o QuoteJSONChars(Tail(str))

\* JSON.stringify(args.apiArg) for apiArg = { path }: {"path":"..."}
StringifyApiArg(path) ==
    <<123, 34, 112, 97, 116, 104, 34, 58, 34>> \o QuoteJSONChars(path) \o <<34, 125>>

RECURSIVE encodeJsonHttpHeaderFromU0080(_)
encodeJsonHttpHeaderFromU0080(json) ==
    IF json = <<>> THEN <<>>
    ELSE (IF Head(json) >= 128 THEN EscapeUnit(Head(json)) ELSE <<Head(json)>>)
         \o encodeJsonHttpHeaderFromU0080(Tail(json))

\* encodeJsonHttpHeader: every code unit from U+007F to U+FFFF is replaced.
RECURSIVE encodeJsonHttpHeader(_)
encodeJsonHttpHeader(json) ==
    IF json = <<>> THEN <<>>
    ELSE (IF Head(json) >= 127 THEN EscapeUnit(Head(json)) ELSE <<Head(json)>>)
         \o encodeJsonHttpHeader(Tail(json))

\* ------------------------------------------------- the functions on their own

\* The longest path followed.
MaxPathLen == 3

\* Paths of up to n of the characters in chars.
PathsUpTo(chars, n) == UNION {[1..k -> chars] : k \in 0..n}

\* The root folders the settings may hold.
RootFolderPool ==
    {NoFolder, <<>>, <<"V">>, <<"a", "/", "V">>, <<"V", "/">>, <<"V", "/", "/", "a">>}

\* The backend paths a response may hold: absolute paths.
ReturnedPaths == {<<"/">> \o q : q \in PathsUpTo({"/", "V", "v", "a"}, MaxPathLen)}

\* The metadata responses stat may get: the tag ("none": no string) and the rev.
StatTags == {"file", "folder", "none", "deleted", "File"}

\* The settings needShowOpenConfig may find.
KeySettings ==
    [dropboxAppKey : {NoValue, "", "k1", "k 1", " ", AppFolderId, FullDropboxId},
     dropboxSecret : {NoValue, "", "s1"},
     dropboxFolder : {NoFolder}]

\* The functions studied, each with its arguments and the settings it reads.
FnArgs ==
    {[fn |-> "list", rootFolder |-> r, data |-> d] : r \in {NoFolder, <<"V">>}, d \in ListData}
    \cup {[fn |-> "stat", resp |-> OkResp(tag, rev, NoValue)] :
              tag \in StatTags, rev \in {NoRev, 1}}
    \cup {[fn |-> "roundTrip", rootFolder |-> r, path |-> q] :
              r \in RootFolderPool, q \in PathsUpTo({"/", "V", "a"}, MaxPathLen)}
    \cup {[fn |-> "toRelPath", rootFolder |-> r, path |-> q] :
              r \in RootFolderPool, q \in ReturnedPaths}
    \cup {[fn |-> "needShowOpenConfig", settings |-> st, isSelfHosted |-> b] :
              st \in KeySettings, b \in BOOLEAN}
    \cup {[fn |-> "encodeJsonHttpHeader", path |-> q] : q \in PathsUpTo(CodeUnits, MaxArgLen)}

InitFn ==
    /\ Constructed
    /\ fnArg \in FnArgs
    /\ fnOut = NoOut

Returns(fn, result) ==
    /\ fnArg.fn = fn
    /\ fnOut.fn = "none"
    /\ fnOut' = [fn |-> fn, result |-> result]
    /\ UNCHANGED <<backend, view, requests, otp, hw, files, workspace, fnArg>>

\* list(dir) after apiCall returned
ListReturns == fnArg.fn = "list" /\ Returns("list", ListReturn(fnArg.rootFolder, fnArg.data))

\* stat(path) after apiCall returned
StatReturns == fnArg.fn = "stat" /\ Returns("stat", StatResult(fnArg.resp))

\* toRelPath(toFullPath(path))
RoundTripReturns ==
    /\ fnArg.fn = "roundTrip"
    /\ Returns("roundTrip", toRelPath(fnArg.rootFolder, toFullPath(fnArg.rootFolder, fnArg.path)))

\* toRelPath(path)
RelPathReturns ==
    fnArg.fn = "toRelPath" /\ Returns("toRelPath", toRelPath(fnArg.rootFolder, fnArg.path))

\* needShowOpenConfig
NeedShowOpenConfigReturns ==
    /\ fnArg.fn = "needShowOpenConfig"
    /\ Returns("needShowOpenConfig", needShowOpenConfig(fnArg.settings, fnArg.isSelfHosted))

\* headers['Dropbox-API-Arg'] = this.encodeJsonHttpHeader(JSON.stringify(args.apiArg))
HeaderReturns ==
    /\ fnArg.fn = "encodeJsonHttpHeader"
    /\ Returns("encodeJsonHttpHeader",
               [json |-> StringifyApiArg(fnArg.path),
                header |-> encodeJsonHttpHeader(StringifyApiArg(fnArg.path))])

NextFn ==
    \/ ListReturns
    \/ StatReturns
    \/ RoundTripReturns
    \/ RelPathReturns
    \/ NeedShowOpenConfigReturns
    \/ HeaderReturns

SpecFn == InitFn /\ [][NextFn]_vars

\* ------------------------------------------------------------------ claims

\* A save that passed a rev which is not the revision the service has.
MismatchedSave(e) ==
    /\ e.op = "save" /\ e.served /\ e.rev # NoRev
    /\ (e.before.kind # "file" \/ e.before.rev # e.rev)

\* What the caller gets when the service fails a request on its own account.
FaultResults == {ApiCallCatch(HttpError(ErrResp(fault[1], fault[2]))) : fault \in Faults}

\* C1: a save whose rev differs from the remote revision fails with a
\* Conflict error that differs from what every other failure gives the
\* caller, and leaves the remote file as it was.
C1_ConflictIsDistinguished ==
    \A e \in ended : MismatchedSave(e) =>
        /\ e.after = e.before
        /\ e.result.err = "Conflict"
        /\ e.result \notin FaultResults

\* C2: a save passing the rev the caller last got from save or stat, with no
\* write to the path since, is accepted; a save whose rev does not match is
\* neither applied nor reported as a success.
C2_RevIsUsable ==
    \A e \in ended : (e.op = "save" /\ e.served /\ e.rev # NoRev) =>
        /\ e.agreed => /\ e.result.err = "none"
                       /\ e.after = [kind |-> "file", rev |-> e.result.rev, data |-> e.data]
        /\ MismatchedSave(e) => (e.after = e.before /\ e.result.err # "none")

C2_Witness ==
    \E e \in ended : e.op = "save" /\ e.served /\ e.rev # NoRev /\ e.agreed
                     /\ e.result.err = "none" /\ e.before.rev = e.rev

\* C3: a save without rev overwrites whatever revision the file has: it
\* succeeds, the remote holds the saved content, and the rev returned is
\* defined and is not the revision the file had.
C3_SaveWithoutRev ==
    \A e \in ended : (e.op = "save" /\ e.served /\ e.rev = NoRev /\ e.before.kind # "folder") =>
        /\ e.result.err = "none"
        /\ e.result.rev # NoRev
        /\ e.result.rev # e.before.rev
        /\ e.after = [kind |-> "file", rev |-> e.result.rev, data |-> e.data]

C3_Witness ==
    \E e \in ended : e.op = "save" /\ e.served /\ e.rev = NoRev
                     /\ e.before.kind = "file" /\ e.before.data # e.data
                     /\ e.result.err = "none"

\* C4: at most one refresh exchange is in flight, and one expiry of the
\* access token leads to one refresh exchange however many calls meet it.
C4_SingleRefresh == session.inflight <= 1 /\ session.exchanges <= 1

C4_Witness ==
    /\ session.state = "Refreshing" /\ session.inflight = 1
    /\ \A c \in Calls : calls[c].pc = "await401"

\* C5: a 401 in the Authenticated state starts a refresh; when the refresh
\* succeeds the session is Authenticated and the call is sent a second time
\* and no more; when it fails the session is Unauthenticated and the call
\* fails with an AuthFailure error.
C5_RefreshOutcome ==
    [][\A c \in Calls :
         /\ (calls[c].pc = "sent" /\ calls'[c].pc = "await401")
               => session'.state = "Refreshing"
         /\ (calls[c].pc = "await401" /\ session'.state = "Authenticated")
               => (calls'[c].pc = "sent" /\ calls'[c].sent = 2)
         /\ (calls[c].pc = "await401" /\ session'.state \notin {"Refreshing", "Authenticated"})
               => /\ session'.state = "Unauthenticated"
                  /\ \E e \in ended' : e.call = c /\ e.result.err = "AuthFailure"]_vars

\* C6: a request is dispatched once, and a second time only after a 401
\* and the refresh it led to; a call that ended, whatever its error, is not
\* dispatched again.
C6_DispatchedOnce ==
    [][\A c \in Calls :
         /\ calls'[c].sent <= 2
         /\ (calls'[c].sent > calls[c].sent /\ calls[c].sent >= 1) =>
               \/ calls[c].pc = "await401" /\ session.state = "Refreshing"
               \/ calls[c].pc = "sent" /\ ~(calls[c].tok = "cur" /\ session.tokenOk)
         /\ \A e \in ended' : e.call = c => (calls'[c].pc = "idle" /\ e.sent <= 2)]_vars

C6_Witness ==
    \E e \in ended : e.sent = 2 /\ e.result.err = "ApiError" /\ e.resp.status = 409

\* C7: a failed response with the path discriminator "not_found" reaches
\* the caller as FileNotFound whatever its status, no other failure does, and
\* the load of an absent path fails with FileNotFound.
C7_NotFoundMapping ==
    \A e \in ended :
        /\ (e.resp.status \notin {0, 200} /\ e.resp.errPath = "not_found")
               => e.result.err = "FileNotFound"
        /\ e.result.err = "FileNotFound"
               => (e.resp.status \notin {0, 200} /\ e.resp.errPath = "not_found")
        /\ (e.op = "load" /\ e.served /\ e.before.kind = "absent")
               => e.result.err = "FileNotFound"

C7_Witness ==
    \E e \in ended : e.resp.status = 500 /\ e.resp.errPath = "not_found"
                     /\ e.result.err = "FileNotFound"

\* C8: a non-2xx response that is not a not-found one reaches the caller as
\* an API error with the response's status; a failure of the transport (no
\* response, a timeout) reaches it as a Network error, not as an API error.
C8_ApiAndNetworkErrors ==
    \A e \in ended :
        /\ (e.resp.status \notin {0, 200} /\ e.resp.errPath # "not_found")
               => (e.result.err = "ApiError" /\ e.result.status = e.resp.status)
        /\ (e.sent >= 1 /\ e.resp = NoResp)
               => e.result.err = "Network"

\* What reaches the network: the calls, the session and the service.
network == <<remote, nextRev, session, calls, ended, revoke>>

\* C9: applyConfig with a built-in application id as key fails with a
\* configuration error, issues nothing on the network and leaves the stored
\* key, secret and folder as they were.
C9_BuiltInKeyRefused ==
    [][\A config \in Configs :
          (config.key \in {AppFolderId, FullDropboxId} /\ ApplyConfig(config)) =>
              /\ cfgResult' = "Bad key"
              /\ settings' = settings
              /\ seen' = {}
              /\ network' = network]_vars

C9_Witness ==
    /\ cfgResult = "Bad key"
    /\ settings.dropboxAppKey = "k1" /\ settings.dropboxSecret = "s1"
    /\ settings.dropboxFolder = <<"V", "/", "W">>

\* C10: applyConfig with any other key stores key, secret and folder
\* together: every settings state an observer is notified of holds all three
\* old values or all three new ones; and it issues nothing on the network.
C10_ConfigStoredTogether ==
    [][\A config \in Configs :
          (config.key \notin {AppFolderId, FullDropboxId} /\ ApplyConfig(config)) =>
              /\ cfgResult' = "ok"
              /\ settings'.dropboxAppKey = config.key
              /\ settings'.dropboxSecret = config.secret
              /\ \A st \in seen' : st = settings \/ st = settings'
              /\ network' = network]_vars

C10_Witness ==
    /\ cfgResult = "ok"
    /\ seen = {settings}
    /\ settings = [dropboxAppKey |-> "k2", dropboxSecret |-> "s2", dropboxFolder |-> <<"V">>]

C12_LogoutClears ==
    [][/\ Logout => /\ session' = LoggedOutSession("LoggedOut")
                    /\ revoke'.by = "logout" /\ ~revoke'.rejected
       /\ \A ok \in BOOLEAN : (revoke.by = "logout" /\ RevokeDone(ok)) =>
            /\ ~revoke'.rejected /\ revoke'.pc = "done"
            /\ revoke'.logged = ~ok
            /\ session' = session]_vars

C12_Witness ==
    /\ revoke = [pc |-> "done", by |-> "logout", request |-> TRUE,
                 rejected |-> FALSE, logged |-> TRUE]
    /\ session.state = "LoggedOut"

\* C13: whenever a request is dispatched, the session is Authenticated and
\* the request carries the session's current token, also when a logout
\* made by applySetting or a refresh comes between the call and its dispatch.
C13_DispatchAuthenticated ==
    [][\A c \in Calls : calls'[c].sent > calls[c].sent =>
          /\ session'.state = "Authenticated"
          /\ calls'[c].pc = "sent" /\ calls'[c].tok = "cur"]_vars

C13_Witness ==
    /\ revoke.by = "applySetting" /\ session.state = "Authenticated"
    /\ \E c \in Calls : calls[c].pc = "sent" /\ calls[c].sent = 2 /\ calls[c].tok = "cur"

\* C14: in the open view, a completion of a storage applyConfig or stat whose
\* request is no longer the one waited for (its wait id is not the stored one,
\* the dialog having been closed since) changes nothing: busy, storageWaitId,
\* the open parameters and the configuration view stay as they were.
C14_StaleCompletionIgnored ==
    [][\A req \in requests, err \in Errs, stat \in Stats :
          (/\ view.storageWaitId # req.waitId
           /\ \/ StorageApplyConfigComplete(req, err)
              \/ StorageStatComplete(req, err, stat))
          => view' = view]_vars

C14_Witness ==
    /\ view.busy /\ view.storageWaitId = 2 /\ view.openConfig.shown
    /\ view.params = NoParams
    /\ \E req \in requests : req.state = "ignored" /\ req.waitId = 1 /\ req.for = "stat"

\* An entry whose required fields are all there and well-formed.
WellFormed(entry) ==
    /\ entry.kind = "object"
    /\ entry.nameType = "string" /\ entry.pathType = "string"
    /\ entry.revType \in {"string", "undefined"}

\* C15: list returns one item for every entry of the response whose required
\* fields are well-formed, in the order of the response, and passes over
\* every other entry; it fails only when the response has no entries array.
C15_ListSkipsMalformed ==
    (fnOut.fn = "list") =>
        LET good == SelectSeq(fnArg.data.entries, WellFormed)
        IN  /\ fnOut.result.err # "none" => ~fnArg.data.hasEntries
            /\ fnArg.data.hasEntries =>
                  /\ fnOut.result.err = "none"
                  /\ Len(fnOut.result.items) = Len(good)
                  /\ \A i \in 1..Len(good) :
                        /\ fnOut.result.items[i].name = good[i].name
                        /\ fnOut.result.items[i].rev = good[i].rev

\* C16: stat returns {folder: true} only for a response tagged folder and a
\* file stat only for a response tagged file; with the tag missing or of any
\* other value it fails and returns no stat.
C16_StatByTag ==
    (fnOut.fn = "stat") =>
        /\ (fnOut.result.err = "none" /\ fnOut.result.folder) <=> fnArg.resp.tag = "folder"
        /\ (fnOut.result.err = "none" /\ ~fnOut.result.folder) <=> fnArg.resp.tag = "file"
        /\ fnArg.resp.tag = "file" => fnOut.result.rev = fnArg.resp.rev
        /\ fnArg.resp.tag \notin {"file", "folder"} =>
              (fnOut.result.err # "none" /\ fnOut.result.rev = NoRev)

C16_Witness ==
    /\ fnOut.fn = "stat" /\ fnArg.resp.tag = "File" /\ fnArg.resp.rev = 1
    /\ fnOut.result.err = "BadResponse"

\* A path in canonical slash form: a leading slash, no two slashes in a row.
IsCanonical(s) ==
    /\ s # <<>> /\ s[1] = "/"
    /\ \A i \in 1..(Len(s) - 1) : ~(s[i] = "/" /\ s[i + 1] = "/")

\* normalize(p): the canonical slash form of p.
normalize(q) == fixSlashes(<<"/">> \o q)

\* C17: for every logical path p and every root folder, none included,
\* toRelPath(toFullPath(p)) is normalize(p): p with a leading slash and no
\* duplicate slashes.
C17_PathRoundTrip ==
    (fnOut.fn = "roundTrip") =>
        (fnOut.result = normalize(fnArg.path) /\ IsCanonical(fnOut.result))

\* t is what s begins with.
IsPrefix(t, s) == Len(t) <= Len(s) /\ SubSeq(s, 1, Len(t)) = t

\* C18: with a root folder set, toRelPath of a backend path that begins with
\* the root folder, whatever the case, is the rest of the path in canonical
\* slash form; a backend path that does not begin with the root folder keeps
\* all of its characters.
C18_RootFolderStripped ==
    (fnOut.fn = "toRelPath" /\ fnArg.rootFolder # NoFolder /\ fnArg.rootFolder # <<>>) =>
        LET r == toLowerCase(fnArg.rootFolder)
            q == toLowerCase(fnArg.path)
            n == Len(fnArg.rootFolder)
        IN  /\ IsCanonical(fnOut.result)
            /\ IsPrefix(r, q) => fnOut.result = normalize(SubSeq(fnArg.path, n + 1, Len(q)))
            /\ (~IsPrefix(r, q) /\ IsPrefix(<<"/">> \o r, q)) =>
                  fnOut.result = normalize(SubSeq(fnArg.path, n + 2, Len(q)))
            /\ (~IsPrefix(r, q) /\ ~IsPrefix(<<"/">> \o r, q)) =>
                  fnOut.result = normalize(fnArg.path)

C18_Witness ==
    /\ fnOut.fn = "toRelPath" /\ fnArg.rootFolder = <<"V">>
    /\ fnArg.path = <<"/", "v", "/", "a">>
    /\ fnOut.result = <<"/", "a">>

\* C20: needShowOpenConfig is true exactly when the effective key is empty,
\* holds a space, or is a built-in key while built-in keys are not allowed,
\* or when there is no secret for the effective key.
C20_NeedShowOpenConfig ==
    (fnOut.fn = "needShowOpenConfig") =>
        LET st      == fnArg.settings
            key     == IF st.dropboxAppKey \in {NoValue, ""} THEN AppFolderId
                       ELSE st.dropboxAppKey
            builtIn == key \in {AppFolderId, FullDropboxId}
            secret  == IF key = AppFolderId THEN AppFolderSecret
                       ELSE IF key = FullDropboxId THEN FullDropboxSecret
                       ELSE st.dropboxSecret
        IN  fnOut.result <=> \/ key = ""
                             \/ key \in {"k 1", " "}
                             \/ builtIn /\ fnArg.isSelfHosted
                             \/ secret \in {NoValue, ""}

C20_Witness ==
    /\ fnOut.fn = "needShowOpenConfig" /\ fnOut.result
    /\ fnArg.settings.dropboxAppKey = "k 1" /\ fnArg.settings.dropboxSecret = "s1"
    /\ ~fnArg.isSelfHosted

\* C19: whatever applyConfig and applySetting('folder', v) calls were made,
\* the stored root folder holds no backslash, begins with no slash and has no
\* whitespace at either end.
C19_FolderSanitized ==
    LET folder == settings.dropboxFolder
    IN  (folder # NoFolder /\ folder # <<>>) =>
            /\ \A i \in 1..Len(folder) : folder[i] # "\\"
            /\ folder[1] # "/"
            /\ folder[1] # " " /\ folder[Len(folder)] # " "

\* What the header holds for the code unit c of the serialized arguments:
\* c itself if it is printable ASCII, else \u and four hex digits.
HeaderImage(c) ==
    IF c \in 32..126 THEN <<c>>
    ELSE <<92, 117, HexChar(c \div 4096), HexChar((c \div 256) % 16),
           HexChar((c \div 16) % 16), HexChar(c % 16)>>

RECURSIVE HeaderImages(_)
HeaderImages(json) ==
    IF json = <<>> THEN <<>> ELSE HeaderImage(Head(json)) \o HeaderImages(Tail(json))

\* C21: the Dropbox-API-Arg header holds printable ASCII only: every code
\* unit of the serialized arguments outside printable ASCII is replaced by
\* \u and the four hex digits of the unit, every printable one is kept.
C21_HeaderIsAscii ==
    (fnOut.fn = "encodeJsonHttpHeader") =>
        /\ \A i \in 1..Len(fnOut.result.header) : fnOut.result.header[i] \in 32..126
        /\ fnOut.result.header = HeaderImages(fnOut.result.json)

C21_Witness ==
    /\ fnOut.fn = "encodeJsonHttpHeader" /\ fnArg.path = <<233, 10>>
    /\ fnOut.result.header =
          <<123, 34, 112, 97, 116, 104, 34, 58, 34, 92, 117, 48, 48, 101, 57, 92, 110, 34, 125>>

\* C22: in the open view, applyConfig called while busy is true starts no
\* request and changes no state, and at any moment at most one request that
\* was issued carries the wait id stored in storageWaitId.
C22_OneRequestAccepted ==
    [][/\ \A config \in ViewConfigs, waitId \in WaitIds :
             (view.busy /\ OpenViewApplyConfig(config, waitId)) => UNCHANGED vars
       /\ Cardinality({r \in requests' : r.waitId = view'.storageWaitId}) <= 1]_vars

C22_Witness ==
    /\ view.busy /\ view.storageWaitId = 2
    /\ Cardinality({r \in requests : r.state = "pending"}) = 2
    /\ Cardinality({r \in requests : r.waitId = view.storageWaitId}) = 1

\* C23: an applyConfig that made the view busy is followed by busy becoming
\* false once the storage call completed or failed, a synchronous throw of
\* storage.applyConfig included: the view is never left busy with the dialog
\* disabled while no completion for the stored wait id is still to come.
C23_BusyIsReleased ==
    (view.busy /\ view.openConfig.disabled) =>
        \E r \in requests : r.waitId = view.storageWaitId /\ r.state = "pending"

\* C24: at most one OTP device opening is in flight at any time, and busy is
\* never set to false while an opening started by openYubiKey has not
\* completed.
C24_OneOtpOpenInFlight ==
    [][/\ Cardinality(otp') <= 1
       /\ (view.busy /\ ~view'.busy) => otp' = {}]_vars

\* How often an event was emitted among the first n of the log.
Emitted(event, n) == Cardinality({i \in 1..n : hw.events[i] = event})

C26_NoExpiredPasswordUsed ==
    \A d \in hw.decrypts : d.date + deviceOwnerAuthTimeoutMinutes >= d.at

\* The tags of the entries of the files, as they stand in the files.
RECURSIVE EntryTags(_)
EntryTags(fs) == IF fs = <<>> THEN <<>> ELSE Head(fs).tags \o EntryTags(Tail(fs))

\* C27: after every change of the list of open files, reload of a file or
\* rename of a tag, the tags of the workspace hold every tag of the entries of
\* the open files once under comparison without case, in the first spelling
\* met, in sorted order; tagsChanged runs only when the list became another.
C27_TagsFollowFiles ==
    [][LET tags == workspace'.tags
           met  == EntryTags(files')
       IN  /\ \A i \in 1..Len(met) :
                  \E j \in 1..Len(tags) : toLowerCase(tags[j]) = toLowerCase(met[i])
           /\ \A j \in 1..Len(tags) :
                  \E i \in 1..Len(met) :
                      /\ met[i] = tags[j]
                      /\ \A k \in 1..(i - 1) : toLowerCase(met[k]) # toLowerCase(met[i])
           /\ \A j \in 1..Len(tags), k \in 1..Len(tags) :
                  j < k => /\ toLowerCase(tags[j]) # toLowerCase(tags[k])
                           /\ ~Before(tags[k], tags[j])
           /\ workspace'.tagsChangedRan => workspace'.tags # workspace.tags]_vars

C27_Witness ==
    /\ Len(files) = 2
    /\ files[1].tags = <<<<"v">>, <<"a">>>> /\ files[2].tags = <<<<"V">>>>
    /\ workspace.tags = <<<<"a">>, <<"v">>>>
    /\ ~workspace.tagsChangedRan

\* How many items of the tags section carry the tag as their title.
ItemsFor(tag) ==
    Cardinality({i \in 1..Len(workspace.tagsSection.items) :
                     workspace.tagsSection.items[i] = tag})

\* C28: the tags section of the menu holds one item for each tag of the
\* workspace and none for any other tag, and is scrollable exactly when there
\* are tags.
C28_TagsSectionFollowsTags ==
    /\ \A tag \in TagPool :
           ItemsFor(tag) = IF \E j \in 1..Len(workspace.tags) : workspace.tags[j] = tag
                           THEN 1 ELSE 0
    /\ workspace.tagsSection.scrollable <=> workspace.tags # <<>>

\* C29: after every change of the list of open files the files section holds
\* one item per open file in the order of the files, the item a file had
\* before being kept, and the groups section holds at most one item per open
\* file and none for a file that is not open.
C29_MenuFollowsFiles ==
    [][LET filesItems  == workspace'.filesSection
           groupsItems == workspace'.groupsSection
       IN  /\ Len(filesItems) = Len(files')
           /\ \A i \in 1..Len(files') :
                  /\ filesItems[i].file = files'[i].id
                  /\ Listed(workspace.filesSection, files'[i]) =>
                         filesItems[i] = Find(workspace.filesSection, files'[i])
           /\ \A j \in 1..Len(groupsItems) :
                  /\ \E i \in 1..Len(files') : files'[i].id = groupsItems[j].file
                  /\ \A k \in 1..Len(groupsItems) :
                         j # k => groupsItems[j].file # groupsItems[k].file]_vars

C29_Witness ==
    /\ Len(files) = 2 /\ files[1].id = "f2" /\ ~files[1].hasGroups
    /\ workspace.filesSection = <<[file |-> "f2", made |-> 0], [file |-> "f1", made |-> 0]>>
    /\ workspace.groupsSection = <<[file |-> "f1", made |-> 1]>>
====
